---- MODULE Spec2Model ----
(***************************************************************************)
(* odml-ui editor tabs: the tab life cycle (new / load / convert / save /  *)
(* validate / clone / close), the clone list used for the undo/redo        *)
(* broadcast, the mapped tabs, and the validation error view.              *)
(*                                                                         *)
(* EditorTab is modelled from editor_tab.py; clone_mapping and             *)
(* MappingEditorTab exist in EditorTab.py only, whose __init__, clone and  *)
(* close are those of editor_tab.py.                                       *)
(*                                                                         *)
(* Objects are numbered: tab ids index `tabs`, every tab's __init__ makes  *)
(* one list object (`lists`, same index) and, without a cmdm argument, one *)
(* command manager (`cms`, keyed by the creating tab).  Documents are the  *)
(* entries of `docs`, the open ValidationWindows (each with the errors and *)
(* the ListStore of its ValidationView) those of `windows`.  `last` records what the most recent call did (its   *)
(* return value and its calls into the window, odml and the event system). *)
(***************************************************************************)
EXTENDS Integers, Sequences, FiniteSets, TLC

VARIABLES tabs, lists, cms, docs, registry, current_tab, windows, last

vars == <<tabs, lists, cms, docs, registry, current_tab, windows, last>>

\* ------------------------------------------------------------- bounds
MaxTabs == 3
MaxEditTabs == 2
MaxCmds == 2
MaxErrs == 2
MaxWindows == 2
MaxEditWindows == 1
MaxPathLen == 3
MaxDocs == 2

\* ------------------------------------------------------------- values
\* A reference that is None is 0; an optional value is <<>> or <<v>>.
Absent == << >>
Some(v) == <<v>>

\* validation_window.py column numbers of the ListStore
COL_PATH == 0
COL_INDEX == 1
COL_DESC == 2

\* one odml.validation error: the object, its path, the message, the flag
Objs == {1, 2}
Paths == {1, 2}
Msgs == {"m1", "m2"}
Errs == [obj : Objs, path : Paths, msg : Msgs, is_error : BOOLEAN]

Warn(o) == [obj |-> o, path |-> o, msg |-> "m1", is_error |-> FALSE]
Fail(o) == [obj |-> o, path |-> o, msg |-> "m2", is_error |-> TRUE]

\* what a validation of a document can find (the document's content)
DocIssueChoices ==
    { << >>, <<Warn(1)>>, <<Fail(1)>>, <<Warn(2), Fail(1)>>,
      <<Warn(1), Warn(2)>>, <<Fail(2), Warn(2)>> }
EditIssueChoices == { << >>, <<Fail(1)>> }
ViewIssueChoices == { << >>, <<Warn(1)>>, <<Fail(2), Fail(1)>> }

\* the effects of one call, all empty
NoEff ==
    [op |-> "init", tab |-> 0, ret |-> "None", newtab |-> 0,
     raised |-> FALSE, map_src |-> 0, unmapped |-> 0, added |-> 0,
     calls |-> << >>, events |-> << >>, info |-> << >>,
     cleaned |-> FALSE, wrote |-> FALSE, write_failed |-> FALSE,
     finalized |-> FALSE, dialog |-> FALSE, response |-> "",
     win_save |-> FALSE, result |-> "", shown |-> 0,
     loaded |-> << >>, src |-> << >>, error_dialog |-> FALSE,
     welcome |-> FALSE, arg |-> FALSE, win |-> 0, row |-> 0,
     selected |-> 0]

Range(s) == {s[i] : i \in 1..Len(s)}
Last(s) == s[Len(s)]
RemoveAt(s, i) == SubSeq(s, 1, i - 1) \o SubSeq(s, i + 1, Len(s))

RECURSIVE SeqsUpTo(_, _)
SeqsUpTo(S, n) ==
    IF n = 0 THEN { << >> }
    ELSE LET shorter == SeqsUpTo(S, n - 1)
         IN  shorter \cup {Append(s, x) : s \in shorter, x \in S}

\* ------------------------------------------------------ tabs and clones
IsOpen(t) == t \in 1..Len(tabs) /\ ~tabs[t].closed
OpenTabs == {t \in 1..Len(tabs) : IsOpen(t)}
Ready(t) == IsOpen(t) /\ tabs[t].document # 0
IsMapping(t) == tabs[t].klass = "MappingEditorTab"
Group(r) == {t \in 1..Len(tabs) : tabs[t].root = r}
OpenGroup(r) == {t \in Group(r) : ~tabs[t].closed}
ClonesOf(t) == lists[tabs[t].clones]

\* EditorTab.__init__(window, cmdm): the fields of the tab numbered id
TabInit(id, klass, cmdm) ==
    [klass |-> klass, clones |-> id,
     cm |-> IF cmdm = 0 THEN id ELSE cmdm,
     document |-> 0, file_uri |-> Absent, edited |-> 0,
     \* history, not fields of the object: whether close() removed the tab,
     \* and the tab constructed without a cmdm that it descends from
     closed |-> FALSE, root |-> id]

\* a fresh odml document whose validation would find `iss`
NewDoc(iss, proxy) ==
    [proxy |-> proxy, issues |-> iss, vr |-> Absent, mapped |-> FALSE]

\* tab = EditorTab(window)
EditorTab ==
    LET id == Len(tabs) + 1
    IN  /\ tabs' = Append(tabs, TabInit(id, "EditorTab", 0))
        /\ lists' = Append(lists, <<id>>)
        /\ cms' = cms @@ (id :> [len |-> 0, owner |-> id])
        /\ last' = [NoEff EXCEPT !.op = "__init__", !.newtab = id]
        /\ UNCHANGED <<docs, registry, current_tab, windows>>

\* tab.new(doc): doc is a document whose validation would find `iss`
new(t, iss) ==
    LET d == Len(docs) + 1
    IN  /\ docs' = Append(docs, NewDoc(iss, 0))
        /\ registry' = registry \cup {d}
        /\ tabs' = [tabs EXCEPT ![t].document = d, ![t].file_uri = Absent]
        /\ last' = [NoEff EXCEPT !.op = "new", !.tab = t, !.added = d]
        /\ UNCHANGED <<lists, cms, current_tab, windows>>

\* the tabs and the lists after t.clone(klass); the new tab is Len(tabs) + 1
ClonedTabs(t, klass) ==
    LET id == Len(tabs) + 1
    IN  Append(tabs, [TabInit(id, klass, tabs[t].cm) EXCEPT
                          !.clones = tabs[t].clones,
                          !.root = tabs[t].root,
                          !.file_uri = tabs[t].file_uri,
                          !.document = tabs[t].document])

\* a variant that does not append the clone to the shared list
ClonedListsOwn(t) == Append(lists, <<Len(tabs) + 1>>)

ClonedLists(t) ==
    LET id == Len(tabs) + 1
    IN  Append([lists EXCEPT ![tabs[t].clones] = Append(@, id)], <<id>>)

\* ntab = t.clone(): klass is None, so the clone has t's class
clone(t) ==
    /\ tabs' = ClonedTabs(t, tabs[t].klass)
    /\ lists' = ClonedLists(t)
    /\ last' = [NoEff EXCEPT !.op = "clone", !.tab = t,
                             !.newtab = Len(tabs) + 1]
    /\ UNCHANGED <<cms, docs, registry, current_tab, windows>>

\* a variant that never looks for an existing mapped tab
clone_mapping_always(t) ==
    LET l == ClonesOf(t)
        id == Len(tabs) + 1
        d == Len(docs) + 1
        src == tabs[Last(l)].document
    IN  /\ docs' = Append([docs EXCEPT ![src].mapped = TRUE],
                          NewDoc(<< >>, src))
        /\ registry' = registry \cup {d}
        /\ tabs' = [ClonedTabs(t, "MappingEditorTab") EXCEPT
                        ![id].document = d]
        /\ lists' = ClonedLists(t)
        /\ last' = [NoEff EXCEPT !.op = "clone_mapping", !.tab = t,
                                 !.newtab = id, !.map_src = src,
                                 !.added = d]
        /\ UNCHANGED <<cms, current_tab, windows>>

\* ntab = t.clone_mapping()
clone_mapping(t) ==
    LET l == ClonesOf(t)
        maps == SelectSeq(l, IsMapping)
        id == Len(tabs) + 1
        d == Len(docs) + 1
    IN  IF maps # << >>
        THEN \* return tab.clone() for the first mapped tab of the list
             /\ tabs' = ClonedTabs(maps[1], tabs[maps[1]].klass)
             /\ lists' = ClonedLists(maps[1])
             /\ last' = [NoEff EXCEPT !.op = "clone_mapping", !.tab = t,
                                      !.newtab = id]
             /\ UNCHANGED <<cms, docs, registry, current_tab, windows>>
        ELSE IF l = << >>
        THEN \* the loop variable `tab` was never bound
             /\ last' = [NoEff EXCEPT !.op = "clone_mapping", !.tab = t,
                                      !.raised = TRUE]
             /\ UNCHANGED <<tabs, lists, cms, docs, registry, current_tab, windows>>
        ELSE \* `tab` is the last tab of the list after the loop
             LET src == tabs[Last(l)].document
             IN  /\ docs' = Append([docs EXCEPT ![src].mapped = TRUE],
                                   NewDoc(<< >>, src))
                 /\ registry' = registry \cup {d}
                 /\ tabs' = [ClonedTabs(t, "MappingEditorTab") EXCEPT
                                 ![id].document = d]
                 /\ lists' = ClonedLists(t)
                 /\ last' = [NoEff EXCEPT !.op = "clone_mapping", !.tab = t,
                                          !.newtab = id, !.map_src = src,
                                          !.added = d]
                 /\ UNCHANGED <<cms, current_tab, windows>>

\* list.remove(x): the list without the first x
RECURSIVE Remove(_, _)
Remove(l, x) ==
    IF l = << >> THEN << >>
    ELSE IF l[1] = x THEN Tail(l)
    ELSE <<l[1]>> \o Remove(Tail(l), x)

\* EditorTab.close(): self._clones.remove(self)
EditorTab_close(t) ==
    IF t \notin Range(ClonesOf(t))
    THEN \* list.remove raises ValueError
         /\ last' = [NoEff EXCEPT !.op = "close", !.tab = t, !.raised = TRUE]
         /\ UNCHANGED <<tabs, lists, cms, docs, registry, current_tab, windows>>
    ELSE /\ lists' = [lists EXCEPT ![tabs[t].clones] = Remove(@, t)]
         /\ tabs' = [tabs EXCEPT ![t].closed = TRUE]
         /\ last' = [NoEff EXCEPT !.op = "close", !.tab = t]
         /\ UNCHANGED <<cms, docs, registry, current_tab, windows>>

\* a variant that looks for mapped tabs before the tab is removed
NoMappingLeftEarly(rest, t) == SelectSeq(rest \o <<t>>, IsMapping) = << >>

\* no MappingEditorTab among the tabs left in the list after t is removed
NoMappingLeft(rest, t) == SelectSeq(rest, IsMapping) = << >>

\* MappingEditorTab.close(): the base close, then unmap when no mapped tab
\* is left in the list
MappingEditorTab_close(t) ==
    IF t \notin Range(ClonesOf(t))
    THEN /\ last' = [NoEff EXCEPT !.op = "close", !.tab = t, !.raised = TRUE]
         /\ UNCHANGED <<tabs, lists, cms, docs, registry, current_tab, windows>>
    ELSE LET rest == Remove(ClonesOf(t), t)
             proxy == docs[tabs[t].document].proxy
             none_left == NoMappingLeft(rest, t)
         IN  /\ lists' = [lists EXCEPT ![tabs[t].clones] = rest]
             /\ tabs' = [tabs EXCEPT ![t].closed = TRUE]
             /\ docs' = IF none_left
                        THEN [docs EXCEPT ![proxy].mapped = FALSE]
                        ELSE docs
             /\ last' = [NoEff EXCEPT !.op = "close", !.tab = t,
                             !.unmapped = IF none_left THEN proxy ELSE 0]
             /\ UNCHANGED <<cms, registry, current_tab, windows>>

\* t.close(), dispatched on the tab's class
close(t) ==
    IF IsMapping(t) THEN MappingEditorTab_close(t) ELSE EditorTab_close(t)

\* ------------------------------------------------- undo/redo broadcast
\* the window makes tab t (or none, 0) its current tab
SelectTab(t) ==
    /\ t # current_tab
    /\ current_tab' = t
    /\ last' = [NoEff EXCEPT !.op = "select", !.tab = t]
    /\ UNCHANGED <<tabs, lists, cms, docs, registry, windows>>

\* a variant in which only the tab itself forwards to the window
EnableCallsSelf(t, fn, enable) ==
    IF current_tab = t THEN <<[fn |-> fn, value |-> enable]>> ELSE << >>

\* t.enable_undo(enable) / t.enable_redo(enable): every tab of t's list
\* forwards to the window if it is the current tab
EnableCalls(t, fn, enable) ==
    LET hit == SelectSeq(ClonesOf(t), LAMBDA x : current_tab = x)
    IN  [i \in 1..Len(hit) |-> [fn |-> fn, value |-> enable]]

\* the command manager c calls its enable_undo callback
enable_undo(c, enable) ==
    /\ last' = [NoEff EXCEPT !.op = "enable_undo", !.tab = cms[c].owner,
                    !.arg = enable,
                    !.calls = EnableCalls(cms[c].owner, "undo", enable)]
    /\ UNCHANGED <<tabs, lists, cms, docs, registry, current_tab, windows>>

\* the command manager c calls its enable_redo callback
enable_redo(c, enable) ==
    /\ last' = [NoEff EXCEPT !.op = "enable_redo", !.tab = cms[c].owner,
                    !.arg = enable,
                    !.calls = EnableCalls(cms[c].owner, "redo", enable)]
    /\ UNCHANGED <<tabs, lists, cms, docs, registry, current_tab, windows>>

\* ------------------------------------------------------ ValidationView
\* fill(): the (path, j, msg, is_error) tuples of the errors, j from 0
Elements(errors) ==
    [j \in 1..Len(errors) |->
        <<errors[j].path, j - 1, errors[j].msg, errors[j].is_error>>]

\* tuple order of elements.sort(): by path, then by j (j is unique, so the
\* later components never decide)
ElemLess(a, b) == a[1] < b[1] \/ (a[1] = b[1] /\ a[2] < b[2])

RECURSIVE Insert(_, _)
Insert(sorted, e) ==
    IF sorted = << >> THEN <<e>>
    ELSE IF ElemLess(e, sorted[1]) THEN <<e>> \o sorted
    ELSE <<sorted[1]>> \o Insert(Tail(sorted), e)

RECURSIVE Sorted(_)
Sorted(elems) ==
    IF elems = << >> THEN << >>
    ELSE Insert(Sorted(SubSeq(elems, 1, Len(elems) - 1)), Last(elems))

\* the row appended for one element: the path (grey for a warning), the
\* index, the message behind a red or orange warning sign
Row(e) ==
    <<[span |-> IF e[4] THEN "plain" ELSE "darkgrey", text |-> e[1]],
      e[2],
      [sign |-> IF e[4] THEN "red" ELSE "orange", text |-> e[3]]>>

\* a variant that stores the row's position instead of the error's index
fill_by_position(errors) ==
    LET elems == Sorted(Elements(errors))
    IN  [i \in 1..Len(elems) |->
            <<Row(elems[i])[1], i - 1, Row(elems[i])[3]>>]

\* the ListStore after fill()
fill(errors) ==
    LET elems == Sorted(Elements(errors))
    IN  [i \in 1..Len(elems) |-> Row(elems[i])]

\* ValidationWindow(tab): a window whose view shows the errors of the
\* validation_result of the tab's document
NewWindow(t, errors) ==
    [tab |-> t, errors |-> errors, store |-> fill(errors)]

\* view.set_errors(errors) on the view of window w
set_errors(w, errors) ==
    /\ windows' = [windows EXCEPT ![w].errors = errors,
                                  ![w].store = fill(errors)]
    /\ last' = [NoEff EXCEPT !.op = "set_errors", !.tab = windows[w].tab,
                             !.win = w]
    /\ UNCHANGED <<tabs, lists, cms, docs, registry, current_tab>>

\* view.on_selection_change with the given row of window w selected
on_selection_change(w, row) ==
    LET index == windows[w].store[row][COL_INDEX + 1]
    IN  /\ last' = [NoEff EXCEPT !.op = "on_selection_change",
                        !.tab = windows[w].tab, !.win = w, !.row = row,
                        !.selected = windows[w].errors[index + 1].obj]
        /\ UNCHANGED <<tabs, lists, cms, docs, registry, current_tab,
                       windows>>

\* ValidationWindow.__init__(tab), as validate() calls it
ValidationWindow(t) ==
    /\ docs[tabs[t].document].vr # Absent
    /\ windows' = Append(windows,
                         NewWindow(t, docs[tabs[t].document].vr[1]))
    /\ last' = [NoEff EXCEPT !.op = "window_init", !.tab = t, !.shown = 1]
    /\ UNCHANGED <<tabs, lists, cms, docs, registry, current_tab>>

\* ---------------------------------------------------------- validation
\* update_validation_error_objects(errors): one change event per error,
\* passed on to the error's object
update_validation_error_objects(errors) ==
    [i \in 1..Len(errors) |-> errors[i].obj]

\* remove_validation() on document d of the documents D: the documents
\* after it, and the events it sends
RemovedDocs(D, d) ==
    IF D[d].vr = Absent THEN D ELSE [D EXCEPT ![d].vr = Absent]

RemovedEvents(D, d) ==
    IF D[d].vr = Absent THEN << >>
    ELSE update_validation_error_objects(D[d].vr[1])

\* odml.validation.Validation(document).errors
Validation(D, d) == D[d].issues

\* a variant that takes every entry, warnings too, for an error
HasErrorAny(errors) == Len(errors) > 0

HasError(errors) == \E i \in 1..Len(errors) : errors[i].is_error

\* a variant that keeps the result of a validation that found nothing
ValidatedDocsKeep(D, d) ==
    [RemovedDocs(D, d) EXCEPT ![d].vr = Some(Validation(D, d))]

\* validate() on document d of the documents D
ValidatedDocs(D, d) ==
    LET D1 == RemovedDocs(D, d)
        D2 == [D1 EXCEPT ![d].vr = Some(Validation(D1, d))]
    IN  IF Len(Validation(D1, d)) > 0 THEN D2 ELSE RemovedDocs(D2, d)

ValidatedEvents(D, d) ==
    LET D1 == RemovedDocs(D, d)
        D2 == [D1 EXCEPT ![d].vr = Some(Validation(D1, d))]
    IN  RemovedEvents(D, d) \o
        (IF Len(Validation(D1, d)) > 0
         THEN update_validation_error_objects(Validation(D1, d))
         ELSE RemovedEvents(D2, d))

\* t.validate()
validate(t) ==
    LET d == tabs[t].document
        errors == Validation(docs, d)
        found == Len(errors) > 0
    IN  /\ docs' = ValidatedDocs(docs, d)
        /\ windows' = IF found THEN Append(windows, NewWindow(t, errors))
                      ELSE windows
        /\ last' = [NoEff EXCEPT !.op = "validate", !.tab = t,
                        !.events = ValidatedEvents(docs, d),
                        !.shown = IF found THEN 1 ELSE 0,
                        !.info = IF found THEN << >> ELSE <<"valid">>]
        /\ UNCHANGED <<tabs, lists, cms, registry, current_tab>>

\* t.remove_validation()
remove_validation(t) ==
    LET d == tabs[t].document
    IN  /\ docs' = RemovedDocs(docs, d)
        /\ last' = [NoEff EXCEPT !.op = "remove_validation", !.tab = t,
                        !.events = RemovedEvents(docs, d)]
        /\ UNCHANGED <<tabs, lists, cms, registry, current_tab, windows>>

\* ValidationWindow.on_close of window w: the window goes away and its
\* tab removes the validation
on_close(w) ==
    LET d == tabs[windows[w].tab].document
    IN  /\ windows' = RemoveAt(windows, w)
        /\ docs' = RemovedDocs(docs, d)
        /\ last' = [NoEff EXCEPT !.op = "on_close", !.tab = windows[w].tab,
                        !.events = RemovedEvents(docs, d)]
        /\ UNCHANGED <<tabs, lists, cms, registry, current_tab>>

\* ---------------------------------------------------------------- save
\* a variant that only sees commands added after the saved position
is_modified_behind(t) == tabs[t].edited < cms[tabs[t].cm].len

\* is_modified
is_modified(t) == tabs[t].edited # cms[tabs[t].cm].len

\* save, an error found: show the info, validate() and return None
SaveBlocked(t) ==
    LET d == tabs[t].document
        D1 == RemovedDocs(docs, d)
        errors == Validation(D1, d)
        D2 == [D1 EXCEPT ![d].vr = Some(errors)]
    IN  /\ docs' = ValidatedDocs(D2, d)
        /\ windows' = Append(windows, NewWindow(t, errors))
        /\ last' = [NoEff EXCEPT !.op = "save", !.tab = t,
                        !.events = RemovedEvents(docs, d) \o
                                   ValidatedEvents(D2, d),
                        !.info = <<"invalid">>, !.shown = 1]
        /\ UNCHANGED <<tabs, lists, cms, registry, current_tab>>

\* a variant that moves the saved marker before the file is written
SaveFailedMarks(t) ==
    LET d == tabs[t].document
        D1 == RemovedDocs(docs, d)
    IN  /\ docs' = [D1 EXCEPT ![d].vr = Some(Validation(D1, d))]
        /\ tabs' = [tabs EXCEPT ![t].edited = cms[tabs[t].cm].len]
        /\ last' = [NoEff EXCEPT !.op = "save", !.tab = t,
                        !.events = RemovedEvents(docs, d),
                        !.cleaned = TRUE, !.wrote = TRUE,
                        !.write_failed = TRUE, !.info = <<"save_failed">>]
        /\ UNCHANGED <<lists, cms, registry, current_tab, windows>>

\* save, no error found, odml.save raises: show "Save failed", return None
SaveFailed(t) ==
    LET d == tabs[t].document
        D1 == RemovedDocs(docs, d)
    IN  /\ docs' = [D1 EXCEPT ![d].vr = Some(Validation(D1, d))]
        /\ last' = [NoEff EXCEPT !.op = "save", !.tab = t,
                        !.events = RemovedEvents(docs, d),
                        !.cleaned = TRUE, !.wrote = TRUE,
                        !.write_failed = TRUE, !.info = <<"save_failed">>]
        /\ UNCHANGED <<tabs, lists, cms, registry, current_tab, windows>>

\* save, no error found, the file is written: finalize, show "was saved",
\* move the saved marker to the command manager's length, return True
SaveDone(t) ==
    LET d == tabs[t].document
        D1 == RemovedDocs(docs, d)
    IN  /\ docs' = [D1 EXCEPT ![d].vr = Some(Validation(D1, d))]
        /\ tabs' = [tabs EXCEPT ![t].edited = cms[tabs[t].cm].len]
        /\ last' = [NoEff EXCEPT !.op = "save", !.tab = t, !.ret = "True",
                        !.events = RemovedEvents(docs, d),
                        !.cleaned = TRUE, !.wrote = TRUE,
                        !.finalized = TRUE, !.info = <<"saved">>]
        /\ UNCHANGED <<lists, cms, registry, current_tab, windows>>

\* t.save(uri, file_type); write_ok: odml.save does not raise.  The parser
\* and the file extension only choose the file that is written.
save(t, write_ok) ==
    IF HasError(Validation(RemovedDocs(docs, tabs[t].document),
                           tabs[t].document))
    THEN SaveBlocked(t)
    ELSE IF ~write_ok THEN SaveFailed(t)
    ELSE SaveDone(t)

\* t.reset(): the edit position is 0, the command manager is reset, undo
\* and redo are disabled through the clone list
reset(t) ==
    /\ tabs' = [tabs EXCEPT ![t].edited = 0]
    /\ cms' = [cms EXCEPT ![tabs[t].cm].len = 0]
    /\ last' = [NoEff EXCEPT !.op = "reset", !.tab = t,
                    !.calls = EnableCalls(t, "undo", FALSE) \o
                              EnableCalls(t, "redo", FALSE)]
    /\ UNCHANGED <<lists, docs, registry, current_tab, windows>>

\* the answers of the "Save changes?" dialog
Responses == {"CANCEL", "NO", "YES", "DELETE_EVENT"}
Results == {"True", "False", "None"}

\* t.save_if_changed(); response: what dialog.run() returns, result: what
\* window.save(None) returns
save_if_changed(t, response, result) ==
    /\ last' =
         IF ~is_modified(t)
         THEN [NoEff EXCEPT !.op = "save_if_changed", !.tab = t,
                            !.ret = "True"]
         ELSE IF response = "CANCEL"
         THEN [NoEff EXCEPT !.op = "save_if_changed", !.tab = t,
                            !.dialog = TRUE, !.response = response,
                            !.ret = "False"]
         ELSE IF response = "NO"
         THEN [NoEff EXCEPT !.op = "save_if_changed", !.tab = t,
                            !.dialog = TRUE, !.response = response,
                            !.ret = "True"]
         ELSE [NoEff EXCEPT !.op = "save_if_changed", !.tab = t,
                            !.dialog = TRUE, !.response = response,
                            !.win_save = TRUE, !.result = result,
                            !.ret = result]
    /\ UNCHANGED <<tabs, lists, cms, docs, registry, current_tab, windows>>

\* a command is executed, undone or redone through command manager c: its
\* length becomes n
CmChange(c, n) ==
    /\ n # cms[c].len
    /\ cms' = [cms EXCEPT ![c].len = n]
    /\ last' = [NoEff EXCEPT !.op = "command", !.tab = cms[c].owner]
    /\ UNCHANGED <<tabs, lists, docs, registry, current_tab, windows>>

\* the content of document d changes: a validation now finds iss
DocChange(d, iss) ==
    /\ iss # docs[d].issues
    /\ docs' = [docs EXCEPT ![d].issues = iss]
    /\ last' = [NoEff EXCEPT !.op = "change"]
    /\ UNCHANGED <<tabs, lists, cms, registry, current_tab, windows>>

\* ----------------------------------------------------- load and convert
\* a file path is a sequence of characters; "_converted" stands for the
\* characters of that word (no "/" and no "." among them)
Chars == {"/", ".", "a"}
FilePaths == SeqsUpTo(Chars, MaxPathLen)
Outcomes == {"ok", "invalid_version", "error"}

\* p.rfind(c) + 1: the last position of c in p, 0 if there is none
RFind(p, c) ==
    LET at == {i \in 1..Len(p) : p[i] = c}
    IN  IF at = {} THEN 0 ELSE CHOOSE i \in at : \A j \in at : j <= i

RECURSIVE RStrip(_, _)
RStrip(p, c) ==
    IF p # << >> /\ Last(p) = c THEN RStrip(SubSeq(p, 1, Len(p) - 1), c)
    ELSE p

\* os.path.basename(p)
basename(p) == SubSeq(p, RFind(p, "/") + 1, Len(p))

\* os.path.dirname(p)
dirname(p) ==
    LET head == SubSeq(p, 1, RFind(p, "/"))
    IN  IF head # << >> /\ (\E i \in 1..Len(head) : head[i] # "/")
        THEN RStrip(head, "/")
        ELSE head

\* os.path.splitext(p)[0]: the extension starts at the last dot, unless
\* only dots lie between the last "/" and it
splitext_root(p) ==
    LET sep == RFind(p, "/")
        dot == RFind(p, ".")
    IN  IF dot > sep /\ (\E k \in (sep + 1)..(dot - 1) : p[k] # ".")
        THEN SubSeq(p, 1, dot - 1)
        ELSE p

\* a variant that concatenates directory and name
joinPlain(a, b) == a \o b

\* os.path.join(a, b)
join(a, b) ==
    IF b # << >> /\ b[1] = "/" THEN b
    ELSE IF a = << >> \/ Last(a) = "/" THEN a \o b
    ELSE a \o <<"/">> \o b

\* "%s_converted.xml" % os.path.splitext(file_name)[0]
new_file_name(file_name) ==
    splitext_root(file_name) \o <<"_converted", ".", "x", "m", "l">>

new_file_path(file_path) ==
    join(dirname(file_path), new_file_name(basename(file_path)))

\* the body of t.load(uri), its effects added to those in eff; outcome:
\* what odml.load does, iss: what a validation of the loaded document finds
LoadBody(t, uri, outcome, iss, eff) ==
    LET d == Len(docs) + 1
    IN  IF outcome = "ok"
        THEN /\ docs' = Append(docs, NewDoc(iss, 0))
             /\ registry' = registry \cup {d}
             /\ tabs' = [tabs EXCEPT ![t].file_uri = Some(uri),
                                     ![t].document = d]
             /\ last' = [eff EXCEPT !.loaded = Append(@, uri),
                                    !.ret = "True", !.added = d,
                                    !.finalized = TRUE,
                                    !.info = <<"loaded">>]
             /\ UNCHANGED <<lists, cms, current_tab, windows>>
        ELSE /\ tabs' = [tabs EXCEPT ![t].file_uri = Some(uri)]
             /\ last' = [eff EXCEPT !.loaded = Append(@, uri),
                                    !.ret = "False",
                                    !.error_dialog = TRUE,
                                    !.welcome = TRUE]
             /\ UNCHANGED <<lists, cms, docs, registry, current_tab,
                            windows>>

\* t.load(uri)
load(t, uri, outcome, iss) ==
    LoadBody(t, uri, outcome, iss,
             [NoEff EXCEPT !.op = "load", !.tab = t, !.src = uri])

\* t.convert(uri); file_path is uri_to_path(uri), write_ok: the converter's
\* write_to_file does not raise
convert(t, file_path, write_ok, outcome, iss) ==
    LET eff == [NoEff EXCEPT !.op = "convert", !.tab = t,
                             !.src = file_path]
    IN  IF ~write_ok
        THEN /\ last' = [eff EXCEPT !.ret = "False", !.wrote = TRUE,
                                    !.write_failed = TRUE,
                                    !.error_dialog = TRUE]
             /\ UNCHANGED <<tabs, lists, cms, docs, registry, current_tab,
                            windows>>
        ELSE LoadBody(t, new_file_path(file_path), outcome, iss,
                      [eff EXCEPT !.wrote = TRUE])

\* ------------------------------------------------ clone groups: Spec
Init ==
    /\ tabs = << >>
    /\ lists = << >>
    /\ cms = << >>
    /\ docs = << >>
    /\ registry = {}
    /\ current_tab = 0
    /\ windows = << >>
    /\ last = NoEff

Next ==
    \/ Len(tabs) < MaxTabs /\ EditorTab
    \/ \E t \in OpenTabs : tabs[t].document = 0 /\ new(t, << >>)
    \/ \E t \in OpenTabs : Ready(t) /\ Len(tabs) < MaxTabs /\ clone(t)
    \/ \E t \in OpenTabs :
           Ready(t) /\ Len(tabs) < MaxTabs /\ clone_mapping(t)
    \/ \E t \in OpenTabs : close(t)
    \/ \E t \in 0..Len(tabs) : SelectTab(t)
    \/ \E c \in DOMAIN cms, b \in BOOLEAN : enable_undo(c, b)
    \/ \E c \in DOMAIN cms, b \in BOOLEAN : enable_redo(c, b)

Spec == Init /\ [][Next]_vars

\* ------------------------------------------- one document: SpecVal
\* a tab on a new document (new(doc), reset()) whose validation finds iss
TabOn(iss) ==
    /\ tabs = <<[TabInit(1, "EditorTab", 0) EXCEPT !.document = 1]>>
    /\ lists = << <<1>> >>
    /\ cms = (1 :> [len |-> 0, owner |-> 1])
    /\ docs = <<NewDoc(iss, 0)>>
    /\ registry = {1}
    /\ current_tab = 1
    /\ windows = << >>
    /\ last = NoEff

\* a save that would open a validation window, only below `most` windows
MayShow(t, most) ==
    Len(windows) < most \/ ~HasError(Validation(docs, tabs[t].document))

InitVal == \E iss \in DocIssueChoices : TabOn(iss)

NextVal ==
    \/ \E t \in OpenTabs :
           (Len(windows) < MaxWindows
               \/ Validation(docs, tabs[t].document) = << >>) /\ validate(t)
    \/ \E t \in OpenTabs, ok \in BOOLEAN :
           MayShow(t, MaxWindows) /\ save(t, ok)
    \/ \E t \in OpenTabs : remove_validation(t)
    \/ \E w \in 1..Len(windows) : on_close(w)
    \/ \E d \in 1..Len(docs), iss \in DocIssueChoices : DocChange(d, iss)

SpecVal == InitVal /\ [][NextVal]_vars

\* --------------------------------------- edits and saves: SpecEdit
InitEdit == \E iss \in EditIssueChoices : TabOn(iss)

NextEdit ==
    \/ \E c \in DOMAIN cms, n \in 0..MaxCmds : CmChange(c, n)
    \/ \E d \in 1..Len(docs), iss \in EditIssueChoices : DocChange(d, iss)
    \/ \E t \in OpenTabs, ok \in BOOLEAN :
           MayShow(t, MaxEditWindows) /\ save(t, ok)
    \/ \E t \in OpenTabs : reset(t)
    \/ \E t \in OpenTabs : Len(tabs) < MaxEditTabs /\ clone(t)
    \/ \E t \in OpenTabs :
           (Len(windows) < MaxEditWindows
               \/ Validation(docs, tabs[t].document) = << >>) /\ validate(t)
    \/ \E t \in OpenTabs : remove_validation(t)
    \/ \E w \in 1..Len(windows) : on_close(w)

SpecEdit == InitEdit /\ [][NextEdit]_vars

\* ------------------------------------- the save prompt: SpecPrompt
InitPrompt == TabOn(<< >>)

NextPrompt ==
    \/ \E c \in DOMAIN cms, n \in 0..MaxCmds : CmChange(c, n)
    \/ \E t \in OpenTabs, ok \in BOOLEAN : save(t, ok)
    \/ \E t \in OpenTabs : reset(t)
    \/ \E t \in OpenTabs, response \in Responses, result \in Results :
           save_if_changed(t, response, result)
    \/ \E t \in OpenTabs : Len(tabs) < MaxEditTabs /\ clone(t)
    \/ \E t \in 0..Len(tabs) : SelectTab(t)

SpecPrompt == InitPrompt /\ [][NextPrompt]_vars

\* ------------------------------------- the validation view: SpecView
\* a tab whose document carries a validation result with the given errors
InitView ==
    \E errors \in SeqsUpTo(Errs, MaxErrs) :
        /\ tabs = <<[TabInit(1, "EditorTab", 0) EXCEPT !.document = 1]>>
        /\ lists = << <<1>> >>
        /\ cms = (1 :> [len |-> 0, owner |-> 1])
        /\ docs = <<[NewDoc(errors, 0) EXCEPT !.vr = Some(errors)]>>
        /\ registry = {1}
        /\ current_tab = 1
        /\ windows = << >>
        /\ last = NoEff

NextView ==
    \/ \E t \in OpenTabs :
           Len(windows) < MaxEditWindows /\ ValidationWindow(t)
    \/ \E w \in 1..Len(windows), errors \in ViewIssueChoices :
           set_errors(w, errors)
    \/ \E w \in 1..Len(windows) :
           \E row \in 1..Len(windows[w].store) : on_selection_change(w, row)

SpecView == InitView /\ [][NextView]_vars

\* ------------------------------------- load and convert: SpecConvert
\* a tab just constructed
InitConvert ==
    /\ tabs = <<TabInit(1, "EditorTab", 0)>>
    /\ lists = << <<1>> >>
    /\ cms = (1 :> [len |-> 0, owner |-> 1])
    /\ docs = << >>
    /\ registry = {}
    /\ current_tab = 0
    /\ windows = << >>
    /\ last = NoEff

\* the first call names any file, a later call tries the same file again
Candidate(p) == last.op = "init" \/ p = last.src

NextConvert ==
    \/ \E t \in OpenTabs, p \in FilePaths, ok \in BOOLEAN,
          outcome \in Outcomes :
           /\ Candidate(p)
           /\ (Len(docs) < MaxDocs \/ outcome # "ok" \/ ~ok)
           /\ convert(t, p, ok, outcome, << >>)
    \/ \E t \in OpenTabs, p \in FilePaths, outcome \in Outcomes :
           /\ Candidate(p)
           /\ (Len(docs) < MaxDocs \/ outcome # "ok")
           /\ load(t, p, outcome, << >>)

SpecConvert == InitConvert /\ [][NextConvert]_vars

\* ---------------------------------------------------------------- C4
\* C4: clone_mapping returns a clone of an existing mapped tab of the
\* group without creating a mapping, otherwise it creates the mapping from
\* this tab's document, registers it and returns a new mapped tab holding
\* it; the open mapped tabs of one group all hold the same mapping document.
C4_CloneMapping ==
    /\ (last.op = "clone_mapping" /\ ~last.raised) =>
         LET n == last.newtab
             others == {u \in OpenGroup(tabs[n].root) \ {n} : IsMapping(u)}
         IN  /\ IsMapping(n)
             /\ n \in Range(ClonesOf(last.tab))
             /\ IF others # {}
                THEN /\ last.map_src = 0
                     /\ last.added = 0
                     /\ \A u \in others :
                            tabs[n].document = tabs[u].document
                ELSE /\ last.map_src = tabs[last.tab].document
                     /\ last.added \in registry
                     /\ tabs[n].document = last.added
                     /\ docs[last.added].proxy = last.map_src
    /\ \A t, u \in OpenTabs :
         (tabs[t].root = tabs[u].root /\ IsMapping(t) /\ IsMapping(u))
             => tabs[t].document = tabs[u].document

\* a second mapped tab was made from an existing one, none closed
C4_Witness ==
    /\ last.op = "clone_mapping"
    /\ last.map_src = 0
    /\ ~last.raised
    /\ Cardinality({u \in OpenTabs : IsMapping(u)}) >= 2
    /\ \A t \in 1..Len(tabs) : ~tabs[t].closed

\* ---------------------------------------------------------------- C7
\* C7: all tabs derived from one original tab share one _clones list and
\* one command manager, and that list holds exactly the tabs of the group
\* that were not closed, each exactly once.
C7_CloneGroup ==
    \A t \in 1..Len(tabs) :
        LET r == tabs[t].root
            l == ClonesOf(t)
        IN  /\ tabs[t].clones = tabs[r].clones
            /\ tabs[t].cm = tabs[r].cm
            /\ Range(l) = OpenGroup(r)
            /\ Len(l) = Cardinality(Range(l))

\* a group of three tabs, one of them closed
C7_Witness ==
    \E r \in 1..Len(tabs) :
        /\ Cardinality(Group(r)) >= 3
        /\ Cardinality(OpenGroup(r)) = 2
        /\ last.op = "close"

\* ---------------------------------------------------------------- C8
\* C8: an enable_undo / enable_redo coming from the command manager calls
\* window.enable_undo / enable_redo with the same value exactly once if the
\* window's current tab is an open tab of the clone group, and not at all
\* otherwise, also after the tab that created the manager was closed.
C8_Broadcast ==
    (last.op \in {"enable_undo", "enable_redo"}) =>
        LET fn == IF last.op = "enable_undo" THEN "undo" ELSE "redo"
        IN  IF current_tab \in OpenGroup(tabs[last.tab].root)
            THEN last.calls = <<[fn |-> fn, value |-> last.arg]>>
            ELSE last.calls = << >>

\* the creating tab is closed, a clone of it is current and gets the call
C8_Witness ==
    /\ last.op = "enable_redo"
    /\ tabs[last.tab].closed
    /\ current_tab # 0
    /\ current_tab # last.tab
    /\ Len(last.calls) = 1

\* --------------------------------------------------------------- C10
\* C10: MappingEditorTab.close unmaps the document exactly when the closed
\* tab was the last mapped tab in the group's list; closing a plain tab, or
\* a mapped tab while another one remains, never unmaps.
C10_Unmap ==
    (last.op = "close" /\ ~last.raised) =>
        LET t == last.tab
            left == {u \in OpenGroup(tabs[t].root) : IsMapping(u)}
        IN  IF IsMapping(t) /\ left = {}
            THEN /\ last.unmapped # 0
                 /\ last.unmapped = docs[tabs[t].document].proxy
            ELSE last.unmapped = 0

\* the last mapped tab was closed after another mapped tab, plain tabs left
C10_Witness ==
    /\ last.op = "close"
    /\ last.unmapped # 0
    /\ \E u \in 1..Len(tabs) :
           u # last.tab /\ IsMapping(u) /\ tabs[u].closed
    /\ OpenGroup(tabs[last.tab].root) # {}

\* ---------------------------------------------------------------- C1
\* C1: save validates before writing: when the fresh validation holds an
\* entry with is_error, save calls neither document.clean() nor the file
\* writer, shows the "Invalid document" info, runs validate() (the result
\* stays on the document, a validation window shows it) and does not return
\* True; with warnings only the write is attempted.
C1_SaveGate ==
    (last.op = "save") =>
        LET d == tabs[last.tab].document
            errors == docs[d].issues
        IN  IF \E i \in 1..Len(errors) : errors[i].is_error
            THEN /\ ~last.wrote
                 /\ ~last.cleaned
                 /\ last.info = <<"invalid">>
                 /\ last.ret # "True"
                 /\ last.shown = 1
                 /\ docs[d].vr = Some(errors)
                 /\ Last(windows).errors = errors
            ELSE /\ last.cleaned
                 /\ last.wrote
                 /\ last.shown = 0

\* a save of a document with a warning and an error was blocked
C1_Witness ==
    /\ last.op = "save"
    /\ docs[tabs[last.tab].document].issues = <<Warn(2), Fail(1)>>
    /\ ~last.wrote
    /\ last.shown = 1

\* ---------------------------------------------------------------- C2
\* C2: save_if_changed returns True without a dialog when the tab is not
\* modified; when it is modified the dialog is shown and the result is
\* False for Cancel, True for No (without saving), and for Yes whatever
\* window.save(None) returns.
C2_SaveIfChanged ==
    (last.op = "save_if_changed") =>
        LET t == last.tab
        IN  IF tabs[t].edited = cms[tabs[t].cm].len
            THEN last.ret = "True" /\ ~last.dialog /\ ~last.win_save
            ELSE /\ last.dialog
                 /\ last.response = "CANCEL" =>
                        (last.ret = "False" /\ ~last.win_save)
                 /\ last.response = "NO" =>
                        (last.ret = "True" /\ ~last.win_save)
                 /\ last.response = "YES" =>
                        (last.win_save /\ last.ret = last.result)

\* a modified tab whose saved marker lies beyond the command manager's
\* length answered Yes, and window.save returned False
C2_Witness ==
    /\ last.op = "save_if_changed"
    /\ tabs[last.tab].edited > cms[tabs[last.tab].cm].len
    /\ last.response = "YES"
    /\ last.ret = "False"

\* ---------------------------------------------------------------- C3
\* the suffixes that may be an extension: empty, or a dot and no other dot
IsExtension(ext) ==
    ext = << >> \/ (ext[1] = "." /\ \A i \in 2..Len(ext) : ext[i] # ".")

\* C3: when writing the converted file raises, convert returns False, load
\* is not called and the tab, the documents and the registry stay as they
\* were; otherwise load is called exactly once, on the old name without its
\* extension plus "_converted.xml" in the directory of the old file, and
\* convert returns what load returns.
C3_Convert ==
    [][(last'.op = "convert") =>
        IF last'.write_failed
        THEN /\ last'.ret = "False"
             /\ last'.loaded = << >>
             /\ tabs' = tabs
             /\ docs' = docs
             /\ registry' = registry
        ELSE /\ Len(last'.loaded) = 1
             /\ LET p == last'.loaded[1]
                    old == basename(last'.src)
                    t == last'.tab
                IN  /\ dirname(p) = dirname(last'.src)
                    /\ \E k \in 0..Len(old) :
                           /\ IsExtension(SubSeq(old, k + 1, Len(old)))
                           /\ basename(p) = SubSeq(old, 1, k) \o
                                  <<"_converted", ".", "x", "m", "l">>
                    /\ tabs'[t].file_uri = Some(p)
                    /\ IF last'.ret = "True"
                       THEN /\ last'.added = Len(docs) + 1
                            /\ tabs'[t].document = last'.added
                            /\ last'.added \in registry'
                       ELSE /\ last'.ret = "False"
                            /\ last'.error_dialog
                            /\ tabs'[t].document = tabs[t].document
                            /\ docs' = docs
                            /\ registry' = registry]_vars

\* a file with an extension in a directory was converted and loaded
C3_Witness ==
    /\ last.op = "convert"
    /\ last.src = <<"a", "/", "a">> \/ last.src = <<"/", "a", ".">>
    /\ last.ret = "True"
    /\ Len(last.loaded) = 1

\* ---------------------------------------------------------------- C5
\* C5: the store of a validation view holds one row per error of the list
\* given to set_errors, ordered by (path, index in the list); the index of
\* a row is the position of the error whose path and message the row
\* shows, and a selection change passes that error's object on.
C5_View ==
    /\ \A w \in 1..Len(windows) :
         LET errors == windows[w].errors
             rows == windows[w].store
         IN  /\ Len(rows) = Len(errors)
             /\ {rows[r][COL_INDEX + 1] : r \in 1..Len(rows)}
                    = 0..(Len(errors) - 1)
             /\ \A r \in 1..Len(rows) :
                    LET err == errors[rows[r][COL_INDEX + 1] + 1]
                    IN  /\ rows[r][COL_PATH + 1].text = err.path
                        /\ rows[r][COL_DESC + 1].text = err.msg
             /\ \A r, q \in 1..Len(rows) :
                    r < q =>
                        \/ rows[r][COL_PATH + 1].text
                               < rows[q][COL_PATH + 1].text
                        \/ /\ rows[r][COL_PATH + 1].text
                                  = rows[q][COL_PATH + 1].text
                           /\ rows[r][COL_INDEX + 1] < rows[q][COL_INDEX + 1]
    /\ (last.op = "on_selection_change") =>
         LET errors == windows[last.win].errors
             row == windows[last.win].store[last.row]
         IN  last.selected = errors[row[COL_INDEX + 1] + 1].obj

\* the first row of a view shows the second error of the list, and that
\* row was selected
C5_Witness ==
    /\ last.op = "on_selection_change"
    /\ last.row = 1
    /\ windows[last.win].store[1][COL_INDEX + 1] = 1
    /\ windows[last.win].errors[1].obj # windows[last.win].errors[2].obj
    /\ last.selected = windows[last.win].errors[2].obj

\* ---------------------------------------------------------------- C6
\* C6: the saved marker `edited` of a tab changes only in reset (to 0) and
\* in a save that returns True (to the command manager's length); a save
\* that is blocked or whose write raises does not return True and leaves
\* every tab's marker and is_modified as they were; right after a save
\* that returns True the tab is not modified.
C6_SavedMarker ==
    [][/\ \A t \in 1..Len(tabs) :
            tabs'[t].edited # tabs[t].edited =>
                \/ /\ last'.op = "reset"
                   /\ last'.tab = t
                   /\ tabs'[t].edited = 0
                \/ /\ last'.op = "save"
                   /\ last'.tab = t
                   /\ last'.ret = "True"
                   /\ tabs'[t].edited = cms'[tabs'[t].cm].len
       /\ (last'.op = "save") =>
            LET t == last'.tab
                errors == docs'[tabs'[t].document].issues
            IN  /\ ((\E i \in 1..Len(errors) : errors[i].is_error)
                        \/ last'.write_failed) => last'.ret # "True"
                /\ last'.ret # "True" =>
                       \A u \in 1..Len(tabs) :
                           /\ tabs'[u].edited = tabs[u].edited
                           /\ (tabs'[u].edited # cms'[tabs'[u].cm].len)
                                  = (tabs[u].edited # cms[tabs[u].cm].len)
                /\ last'.ret = "True" =>
                       tabs'[t].edited = cms'[tabs'[t].cm].len]_vars

\* the write of a modified document failed and the tab is still modified
C6_Witness ==
    /\ last.op = "save"
    /\ last.write_failed
    /\ tabs[last.tab].edited # cms[tabs[last.tab].cm].len
    /\ tabs[last.tab].edited # 0

\* ---------------------------------------------------------------- C9
\* C9: after validate() the document carries a validation_result only if
\* the validation found an error or warning, and then a validation window
\* shows it; if it found none there is no validation_result and no window
\* was opened.  Closing a validation window removes the validation_result
\* and sends one change event to the object of each of its errors;
\* remove_validation on a document without validation_result changes
\* nothing and sends no event.
C9_Lifecycle ==
    [][/\ (last'.op = "validate") =>
            LET d == tabs'[last'.tab].document
                errors == docs'[d].issues
            IN  IF errors # << >>
                THEN /\ docs'[d].vr = Some(errors)
                     /\ last'.shown = 1
                     /\ Len(windows') = Len(windows) + 1
                     /\ Last(windows').errors = errors
                ELSE /\ docs'[d].vr = Absent
                     /\ last'.shown = 0
                     /\ windows' = windows
       /\ (last'.op \in {"on_close", "remove_validation"}) =>
            LET d == tabs[last'.tab].document
            IN  /\ docs'[d].vr = Absent
                /\ IF docs[d].vr = Absent
                   THEN last'.events = << >> /\ docs' = docs
                   ELSE /\ Len(last'.events) = Len(docs[d].vr[1])
                        /\ \A i \in 1..Len(last'.events) :
                               last'.events[i] = docs[d].vr[1][i].obj
       /\ (last'.op = "on_close") => Len(windows') = Len(windows) - 1]_vars

\* a validation window was closed while the document carried a result with
\* two entries: the result is gone and two events were sent
C9_Witness ==
    /\ last.op = "on_close"
    /\ Len(last.events) = 2
    /\ docs[tabs[last.tab].document].vr = Absent
    /\ docs[tabs[last.tab].document].issues # << >>

\* --------------------------------------------------------------- C11
\* C11: the tabs of one clone group agree on the modified state: right
\* after a save that returned True through a tab of the group (no command
\* has changed the command manager's length since), every non-closed tab
\* sharing that tab's clone list reports is_modified False, which is the
\* condition under which save_if_changed returns True without a prompt.
\* The code keeps `edited` per tab (class default 0, set by save on self
\* only, not copied by clone), so this does not hold of it.
C11_GroupAgrees ==
    (last.op = "save" /\ last.ret = "True") =>
        \A u \in OpenTabs :
            tabs[u].clones = tabs[last.tab].clones => ~is_modified(u)

\* save_if_changed prompts on a clone whose own marker lags, while another
\* open tab of its clone list stands at the position saved through it
C11_Witness ==
    /\ last.op = "save_if_changed"
    /\ last.dialog
    /\ \E v \in OpenTabs :
           /\ v # last.tab
           /\ tabs[v].clones = tabs[last.tab].clones
           /\ tabs[v].edited # 0
           /\ ~is_modified(v)

====
